---- MODULE Spec2Model ----
(***************************************************************************)
(* The CSV user combiner of src/src/App.jsx: the React component's state,  *)
(* its event handlers, and the per-file pipeline that processFiles runs in *)
(* the complete callback of Papa.parse (filter on Type, extraction of the  *)
(* four target fields, per-file summary), followed by findDuplicates and   *)
(* the publication of the run's outputs.                                   *)
(*                                                                         *)
(* JavaScript values are records [t, s]: t is the typeof tag and s the     *)
(* text String(v) yields.  JavaScript objects are sequences of [k, v]      *)
(* entries in property (insertion) order.                                  *)
(***************************************************************************)
EXTENDS Integers, Sequences, FiniteSets, TLC

VARIABLES
    files,          \* useState: the selected files (App.jsx:6)
    combinedData,   \* useState: published record list (App.jsx:7)
    duplicates,     \* useState: published duplicate groups (App.jsx:8)
    processing,     \* useState: a run is in flight (App.jsx:9)
    results,        \* useState: published RunSummary or null (App.jsx:10)
    csv,            \* the CSV last handed to the clipboard or a download
    pc,             \* "idle", or "parsing" while a Papa.parse call is pending
    i,              \* processFiles: loop index of the file being parsed
    runFiles,       \* processFiles: the files array its closure captured
    allUsers,       \* processFiles: local accumulator of records
    fileResults,    \* processFiles: local accumulator of FileSummary
    lastRun         \* how the most recent run ended (observer of lines 133-149)

vars == <<files, combinedData, duplicates, processing, results, csv,
          pc, i, runFiles, allUsers, fileResults, lastRun>>

-----------------------------------------------------------------------------
(* Bounds *)

MaxFiles == 2
MaxRows == 2

-----------------------------------------------------------------------------
(* JavaScript values *)

Str(s) == [t |-> "string", s |-> s]
Num(n) == [t |-> "number", s |-> ToString(n)]
Bool(b) == [t |-> "boolean", s |-> IF b THEN "true" ELSE "false"]
Null == [t |-> "null", s |-> "null"]
Undefined == [t |-> "undefined", s |-> "undefined"]

\* String(v): the canonical text of a value, as a JavaScript string.
String(v) == v.s

\* ToBoolean(v), the test behind `!x`, `x && y` and Array.prototype.some.
Truthy(v) ==
    CASE v.t = "string" -> v.s # ""
      [] v.t = "number" -> v.s \notin {"0", "NaN"}
      [] v.t = "boolean" -> v.s = "true"
      [] OTHER -> FALSE

\* String.prototype.toLowerCase on the strings of the model.
toLowerCase(s) ==
    CASE s = "Type" -> "type"
      [] s = "TYPE" -> "type"
      [] s = "Name" -> "name"
      [] s = "Display Name" -> "display name"
      [] s = "Domain" -> "domain"
      [] s = "Email" -> "email"
      [] s = "User" -> "user"
      [] s = "Group" -> "group"
      [] s = "Alice" -> "alice"
      [] s = "Bob" -> "bob"
      [] OTHER -> s

\* String.prototype.trim on the strings of the model.
trim(s) ==
    CASE s = "alice " -> "alice"
      [] s = " " -> ""
      [] OTHER -> s

\* Object.keys(obj)
Keys(obj) == [j \in 1..Len(obj) |-> obj[j].k]

\* obj[key]: the property's value, undefined when the object has no such key.
Get(obj, key) ==
    IF \E j \in 1..Len(obj) : obj[j].k = key
    THEN obj[CHOOSE j \in 1..Len(obj) : obj[j].k = key].v
    ELSE Undefined

\* A find that keeps scanning and returns the last match.
RECURSIVE findLast(_, _)
findLast(keys, lowered) ==
    IF keys = <<>> THEN Undefined
    ELSE IF toLowerCase(keys[Len(keys)]) = lowered THEN Str(keys[Len(keys)])
    ELSE findLast(SubSeq(keys, 1, Len(keys) - 1), lowered)

\* keys.find(key => key.toLowerCase() === lowered): the first match, else undefined.
RECURSIVE find(_, _)
find(keys, lowered) ==
    IF keys = <<>> THEN Undefined
    ELSE IF toLowerCase(Head(keys)) = lowered THEN Str(Head(keys))
    ELSE find(Tail(keys), lowered)

\* keys.some(key => key.toLowerCase() === lowered)
some(keys, lowered) == \E j \in 1..Len(keys) : toLowerCase(keys[j]) = lowered

RECURSIVE concatAll(_)
concatAll(seqs) == IF seqs = <<>> THEN <<>> ELSE Head(seqs) \o concatAll(Tail(seqs))

RECURSIVE sumOf(_)
sumOf(nums) == IF nums = <<>> THEN 0 ELSE Head(nums) + sumOf(Tail(nums))

-----------------------------------------------------------------------------
(* What Papa.parse(file, {header: true, skipEmptyLines: true,              *)
(* dynamicTyping: true}) hands to complete: result.data is one object per  *)
(* non-empty line, keyed by the header's fields in header order; a line    *)
(* with fewer fields than the header yields an object with only the first  *)
(* keys; result.meta.fields is the header.  dynamicTyping turns an empty   *)
(* cell into null, "0" into the number 0, "true"/"false" into booleans.    *)

Row(fields, cells) == [j \in 1..Len(cells) |-> [k |-> fields[j], v |-> cells[j]]]

ParseResult(fields, data) == [data |-> data, meta |-> [fields |-> fields]]

File(name, fields, data) == [name |-> name, result |-> ParseResult(fields, data)]

-----------------------------------------------------------------------------
(* processFiles: the body of the complete callback (App.jsx:58-121) *)

requiredFields == <<"Type", "Display Name", "Name", "Domain">>

\* Object.keys(result.data.length > 0 ? result.data[0] : {})
firstRowKeys(result) ==
    Keys(IF Len(result.data) > 0 THEN result.data[1] ELSE <<>>)

typeField(result) == find(firstRowKeys(result), "type")

\* The filter callback: every row when no Type field was found, else the
\* rows whose Type value, as a lowercased string, is 'user'.
keepRow(row, tf) ==
    IF ~Truthy(tf) THEN TRUE
    ELSE toLowerCase(String(Get(row, tf.s))) = "user"

retainedRows(result) ==
    SelectSeq(result.data, LAMBDA row : keepRow(row, typeField(result)))

\* The map callback: the four required fields, then the two metadata fields.
extractedData(row, file, idx) ==
    [j \in 1..Len(requiredFields) |->
        LET field == requiredFields[j]
            actualFieldName == find(Keys(row), toLowerCase(field))
        IN  [k |-> field,
             v |-> IF Truthy(actualFieldName)
                   THEN Get(row, actualFieldName.s)
                   ELSE Str("")]]
    \o << [k |-> "__source_file", v |-> Str(file.name)],
          [k |-> "__file_index", v |-> Num(idx)] >>

filteredData(result, file, idx) ==
    LET kept == retainedRows(result)
    IN  [j \in 1..Len(kept) |-> extractedData(kept[j], file, idx)]

availableFields(result) ==
    SelectSeq(requiredFields,
              LAMBDA field : some(firstRowKeys(result), toLowerCase(field)))

includes(seq, x) == \E j \in 1..Len(seq) : seq[j] = x

\* The object pushed on fileResults.
fileSummary(result, file, idx) ==
    [fileName |-> file.name,
     totalRowCount |-> Len(result.data),
     userRowCount |-> Len(filteredData(result, file, idx)),
     hasTypeField |-> Truthy(typeField(result)),
     availableFields |-> availableFields(result),
     missingFields |->
        SelectSeq(requiredFields,
                  LAMBDA field : ~includes(availableFields(result), field)),
     columns |-> result.meta.fields]

\* A concat with its operands swapped.
concatUsersSwapped(users, filtered) == filtered \o users

\* allUsers = allUsers.concat(filteredData)
concatUsers(users, filtered) == users \o filtered

-----------------------------------------------------------------------------
(* findDuplicates (App.jsx:152-190) *)

nameField == "Name"

\* The Map nameMap as a sequence of [key, records] entries in insertion order.
mapHas(map, key) == \E j \in 1..Len(map) : map[j].key = key

\* A push that puts a new key in front of the earlier keys.
mapPushFront(map, key, entry) ==
    IF mapHas(map, key)
    THEN [j \in 1..Len(map) |->
            IF map[j].key = key
            THEN [map[j] EXCEPT !.records = Append(@, entry)]
            ELSE map[j]]
    ELSE <<[key |-> key, records |-> <<entry>>]>> \o map

mapPush(map, key, entry) ==
    IF mapHas(map, key)
    THEN [j \in 1..Len(map) |->
            IF map[j].key = key
            THEN [map[j] EXCEPT !.records = Append(@, entry)]
            ELSE map[j]]
    ELSE Append(map, [key |-> key, records |-> <<entry>>])

\* The test that admits a record to nameMap.
hasName(nameValue) == Truthy(nameValue) /\ trim(String(nameValue)) # ""

\* data.forEach((record, index) => ...) over the first n records.
RECURSIVE nameMap(_, _)
nameMap(data, n) ==
    IF n = 0 THEN <<>>
    ELSE LET map == nameMap(data, n - 1)
             record == data[n]
             index == n - 1
             nameValue == Get(record, nameField)
         IN  IF hasName(nameValue)
             THEN mapPush(map, trim(toLowerCase(String(nameValue))),
                          Append(record, [k |-> "__original_index", v |-> Num(index)]))
             ELSE map

duplicateGroup(entry) ==
    [strategy |-> "Name",
     duplicateValue |-> entry.key,
     records |-> entry.records,
     originalName |-> Get(entry.records[1], nameField)]

findDuplicates(data) ==
    IF ~(\E j \in 1..Len(data) : Truthy(Get(data[j], nameField)))
    THEN <<>>
    ELSE LET map == nameMap(data, Len(data))
             multi == SelectSeq(map, LAMBDA entry : Len(entry.records) > 1)
         IN  [j \in 1..Len(multi) |-> duplicateGroup(multi[j])]

-----------------------------------------------------------------------------
(* processFiles: what follows the loop (App.jsx:127-143) *)

hasNameField(users) ==
    Len(users) > 0 /\ \E j \in 1..Len(users) : Truthy(Get(users[j], "Name"))

\* A summary whose duplicateCount counts groups instead of members.
runSummaryCountsGroups(users, fileList, frs, groups) ==
    [totalRecords |-> Len(users),
     totalFiles |-> Len(fileList),
     fileDetails |-> frs,
     hasNameField |-> hasNameField(users),
     duplicateCount |-> Len(groups),
     duplicateGroups |-> Len(groups),
     totalOriginalRecords |-> sumOf([j \in 1..Len(frs) |-> frs[j].totalRowCount])]

runSummary(users, fileList, frs, groups) ==
    [totalRecords |-> Len(users),
     totalFiles |-> Len(fileList),
     fileDetails |-> frs,
     hasNameField |-> hasNameField(users),
     duplicateCount |-> sumOf([j \in 1..Len(groups) |-> Len(groups[j].records)]),
     duplicateGroups |-> Len(groups),
     totalOriginalRecords |-> sumOf([j \in 1..Len(frs) |-> frs[j].totalRowCount])]

-----------------------------------------------------------------------------
(* Papa.unparse(array of objects): the header row is Object.keys of the   *)
(* first object; an empty array yields the empty text.  Only the header   *)
(* row of the CSV is kept.                                                *)

unparse(data) == IF data = <<>> THEN <<>> ELSE Keys(data[1])

\* The row objects built for the duplicates CSV (App.jsx:26-32, 216-222).
duplicateRecords(groups) ==
    concatAll([g \in 1..Len(groups) |->
        [r \in 1..Len(groups[g].records) |->
            << [k |-> "duplicate_name",
                v |-> IF Truthy(groups[g].originalName)
                      THEN groups[g].originalName
                      ELSE Str(groups[g].duplicateValue)],
               [k |-> "duplicate_type", v |-> Str("Name")] >>
            \o groups[g].records[r]]])

-----------------------------------------------------------------------------
(* The files the user can select *)

TypeValues == {Str("User"), Str("Group"), Null}
NameValues == {Str("Alice"), Str("alice "), Str(" "), Num(0), Null}
OtherValues == {Str("x"), Null}

CellValues(column) ==
    CASE toLowerCase(column) = "type" -> TypeValues
      [] toLowerCase(column) = "name" -> NameValues
      [] OTHER -> OtherValues

Headers ==
    { <<>>, <<"Name">>, <<"Type", "Name">>, <<"Name", "TYPE">>,
      <<"TYPE", "Type">>, <<"Display Name", "Domain">> }

\* The row objects a line of 1..Len(fields) cells can parse to.
RowsOf(fields) ==
    UNION { { Row(fields, cells) :
                cells \in { c \in [1..n -> TypeValues \cup NameValues \cup OtherValues] :
                              \A j \in 1..n : c[j] \in CellValues(fields[j]) } } :
            n \in 1..Len(fields) }

\* The parsed tables with a given header and at most MaxRows rows.
TablesOf(fields) == UNION { [1..n -> RowsOf(fields)] : n \in 0..MaxRows }

\* Four files on the user's disk.
Library ==
    { File("a.csv", <<"Type", "Name">>,
           << Row(<<"Type", "Name">>, <<Str("User"), Str("Bob")>>),
              Row(<<"Type", "Name">>, <<Str("User"), Str("Alice")>>),
              Row(<<"Type", "Name">>, <<Str("Group"), Str("alice ")>>) >>),
      File("b.csv", <<"Name", "TYPE">>,
           << Row(<<"Name", "TYPE">>, <<Str("alice "), Str("User")>>),
              Row(<<"Name", "TYPE">>, <<Str("Bob"), Str("User")>>) >>),
      File("c.csv", <<"Display Name", "Email">>,
           << Row(<<"Display Name", "Email">>, <<Str("x"), Str("x")>>) >>),
      File("d.csv", <<"Type", "Name">>, <<>>) }

\* A file selection: distinct files, in the order the input element lists them.
Selections ==
    UNION { { sel \in [1..n -> Library] :
                \A a, b \in 1..n : a # b => sel[a] # sel[b] } :
            n \in 0..MaxFiles }

-----------------------------------------------------------------------------
(* State after construction (App.jsx:6-12) *)

NoCsv == [kind |-> "none", fields |-> <<>>]

Init ==
    /\ files = <<>>
    /\ combinedData = <<>>
    /\ duplicates = <<>>
    /\ processing = FALSE
    /\ results = Null
    /\ csv = NoCsv
    /\ pc = "idle"
    /\ i = 0
    /\ runFiles = <<>>
    /\ allUsers = <<>>
    /\ fileResults = <<>>
    /\ lastRun = "none"

\* A batch is drawn first: one generated file, alone or after a Library file.
InitBatch ==
    /\ \E fields \in Headers : \E data \in TablesOf(fields) :
       \E prefix \in {<<>>} \cup { <<f>> : f \in Library } :
          files = prefix \o << File("upload.csv", fields, data) >>
    /\ combinedData = <<>>
    /\ duplicates = <<>>
    /\ processing = FALSE
    /\ results = Null
    /\ csv = NoCsv
    /\ pc = "idle"
    /\ i = 0
    /\ runFiles = <<>>
    /\ allUsers = <<>>
    /\ fileResults = <<>>
    /\ lastRun = "none"

-----------------------------------------------------------------------------
(* Event handlers *)

\* handleFileUpload (App.jsx:14-20); the input is never disabled.
handleFileUpload(uploadedFiles) ==
    /\ files' = uploadedFiles
    /\ combinedData' = <<>>
    /\ duplicates' = <<>>
    /\ results' = Null
    /\ UNCHANGED <<processing, csv, pc, i, runFiles, allUsers, fileResults, lastRun>>

\* processFiles up to its first await (App.jsx:42-54).  The button is rendered
\* only when files.length > 0 and is disabled while processing (App.jsx:281-298).
processFiles ==
    /\ ~processing
    /\ pc = "idle"
    /\ Len(files) # 0
    /\ processing' = TRUE
    /\ allUsers' = <<>>
    /\ fileResults' = <<>>
    /\ i' = 0
    /\ runFiles' = files
    /\ pc' = "parsing"
    /\ lastRun' = "running"
    /\ UNCHANGED <<files, combinedData, duplicates, results, csv>>

\* The complete callback for files[i] and the continuation of processFiles that
\* resolve() wakes: the next loop iteration, or the publication and the finally
\* block after the last file (App.jsx:58-143, 147-149).
complete ==
    /\ pc = "parsing"
    /\ LET file == runFiles[i + 1]
           result == file.result
           users == concatUsers(allUsers, filteredData(result, file, i))
           frs == Append(fileResults, fileSummary(result, file, i))
       IN  IF i + 1 < Len(runFiles)
           THEN /\ allUsers' = users
                /\ fileResults' = frs
                /\ i' = i + 1
                /\ UNCHANGED <<files, combinedData, duplicates, processing,
                               results, csv, pc, runFiles, lastRun>>
           ELSE LET duplicateGroups == findDuplicates(users)
                IN  /\ combinedData' = users
                    /\ duplicates' = duplicateGroups
                    /\ results' = runSummary(users, runFiles, frs, duplicateGroups)
                    /\ processing' = FALSE
                    /\ pc' = "idle"
                    /\ i' = 0
                    /\ runFiles' = <<>>
                    /\ allUsers' = <<>>
                    /\ fileResults' = <<>>
                    /\ lastRun' = "published"
                    /\ UNCHANGED <<files, csv>>

\* An error path that publishes the records accumulated so far.
errorPublishesPartial ==
    /\ pc = "parsing"
    /\ combinedData' = allUsers
    /\ processing' = FALSE
    /\ pc' = "idle"
    /\ i' = 0
    /\ runFiles' = <<>>
    /\ allUsers' = <<>>
    /\ fileResults' = <<>>
    /\ lastRun' = "aborted"
    /\ UNCHANGED <<files, duplicates, results, csv>>

\* The error callback for files[i]: reject, catch, finally (App.jsx:122, 145-149).
error ==
    /\ pc = "parsing"
    /\ processing' = FALSE
    /\ pc' = "idle"
    /\ i' = 0
    /\ runFiles' = <<>>
    /\ allUsers' = <<>>
    /\ fileResults' = <<>>
    /\ lastRun' = "aborted"
    /\ UNCHANGED <<files, combinedData, duplicates, results, csv>>

\* copyToClipboard(type) (App.jsx:22-40); its buttons exist only while results
\* is set, the duplicates one only while duplicates is non-empty (App.jsx:304, 368).
copyToClipboard(type) ==
    /\ results # Null
    /\ type = "duplicates" => Len(duplicates) > 0
    /\ csv' = IF type = "combined"
              THEN [kind |-> "combined", fields |-> unparse(combinedData)]
              ELSE [kind |-> "duplicates",
                    fields |-> unparse(duplicateRecords(duplicates))]
    /\ UNCHANGED <<files, combinedData, duplicates, processing, results,
                   pc, i, runFiles, allUsers, fileResults, lastRun>>

\* downloadCombinedData (App.jsx:192-213)
downloadCombinedData ==
    /\ results # Null
    /\ csv' = [kind |-> "combined", fields |-> unparse(combinedData)]
    /\ UNCHANGED <<files, combinedData, duplicates, processing, results,
                   pc, i, runFiles, allUsers, fileResults, lastRun>>

\* downloadDuplicates (App.jsx:215-244)
downloadDuplicates ==
    /\ results # Null
    /\ Len(duplicates) > 0
    /\ csv' = [kind |-> "duplicates",
               fields |-> unparse(duplicateRecords(duplicates))]
    /\ UNCHANGED <<files, combinedData, duplicates, processing, results,
                   pc, i, runFiles, allUsers, fileResults, lastRun>>

Upload == \E uploadedFiles \in Selections : handleFileUpload(uploadedFiles)

Copy == \E type \in {"combined", "duplicates"} : copyToClipboard(type)

Next ==
    \/ Upload
    \/ processFiles
    \/ complete
    \/ error
    \/ Copy
    \/ downloadCombinedData
    \/ downloadDuplicates

Spec == Init /\ [][Next]_vars

NextBatch ==
    \/ processFiles
    \/ complete
    \/ error

SpecBatch == InitBatch /\ [][NextBatch]_vars

-----------------------------------------------------------------------------
(* Vocabulary of the properties *)

TargetFieldSet == {"Type", "Display Name", "Name", "Domain"}

\* The table's column list has a column named `target`, case-insensitively.
HasColumn(fields, target) ==
    \E j \in 1..Len(fields) : toLowerCase(fields[j]) = toLowerCase(target)

\* The first column of the column list that matches `target`.
ColumnOf(fields, target) ==
    fields[CHOOSE j \in 1..Len(fields) :
             /\ toLowerCase(fields[j]) = toLowerCase(target)
             /\ \A m \in 1..(j - 1) : toLowerCase(fields[m]) # toLowerCase(target)]

\* The records of a record list that carry file index idx.
RecordsOfFile(records, idx) ==
    SelectSeq(records, LAMBDA r : Get(r, "__file_index") = Num(idx))

\* A value that is present and not the empty text.
NonEmpty(v) == v.t \in {"string", "number", "boolean"} /\ String(v) # ""

\* A value that is present and not empty or whitespace-only text.
NonBlank(v) == NonEmpty(v) /\ trim(String(v)) # ""

NormalizedKey(v) == toLowerCase(trim(String(v)))

\* The value the claim expects for a target field of a raw row.
FirstMatch(row, target) ==
    LET M == { j \in 1..Len(row) : toLowerCase(row[j].k) = toLowerCase(target) }
    IN  IF M = {} THEN Str("")
        ELSE row[CHOOSE j \in M : \A m \in M : j <= m].v

-----------------------------------------------------------------------------
(* C1 *)

\* C1: for every processed table, hasTypeField is false exactly when the
\* column list has no column named 'type' (case-insensitively), and every
\* such table keeps all its rows: userRowCount = totalRowCount.
C1_NoTypeColumn ==
    results # Null =>
      \A k \in 1..Len(files) :
        LET summary == results.fileDetails[k]
            noType == ~HasColumn(files[k].result.meta.fields, "type")
        IN  /\ (summary.hasTypeField = FALSE) <=> noType
            /\ noType => summary.userRowCount = summary.totalRowCount

-----------------------------------------------------------------------------
(* C2 *)

\* The rows of a table whose discriminator value is 'user'.
UserRows(result) ==
    LET column == ColumnOf(result.meta.fields, "type")
    IN  SelectSeq(result.data,
                  LAMBDA row : toLowerCase(String(Get(row, column))) = "user")

\* C2: for every table with a discriminator column, the retained rows are
\* exactly the rows whose discriminator value, as a lowercased string, is
\* 'user', in table order; no other row is retained.
C2_OnlyUserRows ==
    results # Null =>
      \A k \in 1..Len(files) :
        HasColumn(files[k].result.meta.fields, "type") =>
          LET expected == UserRows(files[k].result)
          IN  /\ results.fileDetails[k].userRowCount = Len(expected)
              /\ RecordsOfFile(combinedData, k - 1) =
                   [j \in 1..Len(expected) |->
                      extractedData(expected[j], files[k], k - 1)]

-----------------------------------------------------------------------------
(* C3 *)

RecordKeys ==
    <<"Type", "Display Name", "Name", "Domain", "__source_file", "__file_index">>

\* The retained rows of a file list, in file order then row order, each with
\* the name and the 0-based position of its file.
RetainedOf(fileList) ==
    concatAll([k \in 1..Len(fileList) |->
        [j \in 1..Len(retainedRows(fileList[k].result)) |->
            [row |-> retainedRows(fileList[k].result)[j],
             name |-> fileList[k].name,
             idx |-> k - 1]]])

\* Each record has exactly the six keys, every target field holds the value of
\* the row's first matching column or the empty string, and the provenance
\* fields hold the file's name and position.
ExtractedFrom(records, fileList) ==
    LET source == RetainedOf(fileList)
    IN  /\ Len(records) = Len(source)
        /\ \A n \in 1..Len(records) :
             /\ Keys(records[n]) = RecordKeys
             /\ \A target \in TargetFieldSet :
                  Get(records[n], target) = FirstMatch(source[n].row, target)
             /\ Get(records[n], "__source_file") = Str(source[n].name)
             /\ Get(records[n], "__file_index") = Num(source[n].idx)

\* C3: every record extracted for a retained row of file i has exactly the keys
\* Type, Display Name, Name, Domain, __source_file, __file_index; each target
\* field is the value of the row's first case-insensitively matching column, or
\* the empty string when none matches; __source_file is the file's name and
\* __file_index is i.
C3_Extraction ==
    /\ pc = "parsing" => ExtractedFrom(allUsers, SubSeq(runFiles, 1, i))
    /\ results # Null => ExtractedFrom(combinedData, files)

\* A second file whose row names the Type column twice with different values
\* and lacks the other three columns has been extracted and published.
C3_Witness ==
    /\ results # Null
    /\ Len(files) = 2
    /\ files[2].result.data =
         << Row(<<"TYPE", "Type">>, <<Str("User"), Str("Group")>>) >>
    /\ Len(combinedData) > 0
    /\ LET record == combinedData[Len(combinedData)]
       IN  /\ Get(record, "Type") = Str("User")
           /\ Get(record, "Name") = Str("")
           /\ Get(record, "__file_index") = Num(1)

-----------------------------------------------------------------------------
(* C4 *)

\* Positions (1-based) of the records whose Name is non-blank with key k.
MembersOf(data, k) ==
    { j \in 1..Len(data) :
        /\ NonBlank(Get(data[j], "Name"))
        /\ NormalizedKey(Get(data[j], "Name")) = k }

\* The normalized keys shared by two or more records.
SharedKeys(data) ==
    { k \in { NormalizedKey(Get(data[j], "Name")) : j \in 1..Len(data) } :
        Cardinality(MembersOf(data, k)) >= 2 }

\* Positions (1-based) of a group's members in the record list.
PositionsOf(group) ==
    { ix + 1 : ix \in { x \in 0..Len(combinedData) :
        \E m \in 1..Len(group.records) :
            Get(group.records[m], "__original_index") = Num(x) } }

\* C4: the emitted groups are exactly one group per normalized key shared by
\* two or more records with a non-empty, non-whitespace-only Name value
\* (string, number or boolean), holding all the records with that key; every
\* group has at least 2 members and a non-blank key, and no record is in two
\* groups.
C4_Groups ==
    results # Null =>
      /\ \A k \in SharedKeys(combinedData) :
           \E g \in 1..Len(duplicates) :
             /\ duplicates[g].duplicateValue = k
             /\ PositionsOf(duplicates[g]) = MembersOf(combinedData, k)
             /\ Len(duplicates[g].records) = Cardinality(MembersOf(combinedData, k))
             /\ \A h \in 1..Len(duplicates) :
                  duplicates[h].duplicateValue = k => h = g
      /\ \A g \in 1..Len(duplicates) :
           /\ duplicates[g].duplicateValue \in SharedKeys(combinedData)
           /\ Len(duplicates[g].records) >= 2
           /\ trim(duplicates[g].duplicateValue) # ""
      /\ \A g, h \in 1..Len(duplicates) :
           g # h => PositionsOf(duplicates[g]) \cap PositionsOf(duplicates[h]) = {}

-----------------------------------------------------------------------------
(* C5 *)

\* C5: in a published RunSummary, duplicateCount is the sum of the member
\* counts of the published duplicate groups and duplicateGroups is their number.
C5_Counts ==
    results # Null =>
      /\ results.duplicateCount =
           sumOf([g \in 1..Len(duplicates) |-> Len(duplicates[g].records)])
      /\ results.duplicateGroups = Len(duplicates)

\* A summary with two groups of two members each is published.
C5_Witness ==
    /\ results # Null
    /\ Len(duplicates) = 2
    /\ results.duplicateCount = Len(duplicates[1].records) + Len(duplicates[2].records)
    /\ Len(duplicates[1].records) = 2

-----------------------------------------------------------------------------
(* C6 *)

\* C6: a run with no non-empty Name value among its retained records publishes
\* hasNameField = FALSE and no duplicate group; and hasNameField is TRUE
\* whenever some retained record has a non-empty Name value.
C6_NameFlag ==
    results # Null =>
      LET named == \E j \in 1..Len(combinedData) :
                      NonEmpty(Get(combinedData[j], "Name"))
      IN  /\ ~named => /\ results.hasNameField = FALSE
                       /\ results.duplicateGroups = 0
                       /\ duplicates = <<>>
          /\ named => results.hasNameField = TRUE

-----------------------------------------------------------------------------
(* C7 *)

\* C7: when the parser's error callback rejects for a file of the batch, the
\* run aborts: no later file is parsed, combinedData, duplicates and results
\* are left as they were (no step of the run before its publication touches
\* them either), and processing returns to false so that processFiles can be
\* invoked again on the selected files.
C7_Abort ==
    /\ [][ /\ (lastRun # "aborted" /\ lastRun' = "aborted") =>
                /\ UNCHANGED <<combinedData, duplicates, results>>
                /\ processing' = FALSE
                /\ pc' = "idle"
           /\ (pc' = "parsing" /\ (pc = "idle" \/ i' # i)) =>
                UNCHANGED <<combinedData, duplicates, results>> ]_vars
    /\ [](lastRun = "aborted" =>
            /\ ~ENABLED complete
            /\ Len(files) # 0 => ENABLED processFiles)

\* A run aborted after an earlier run had published records: they are still
\* published and the flag is back to false.
C7_Witness ==
    /\ lastRun = "aborted"
    /\ results # Null
    /\ Len(combinedData) > 0
    /\ Len(files) = 2
    /\ processing = FALSE

-----------------------------------------------------------------------------
(* C8 *)

\* The columns of a CSV header that come from the records.
RecordColumns(fields) ==
    SelectSeq(fields, LAMBDA f : f \notin {"duplicate_name", "duplicate_type"})

\* C8: the CSV of the combined records and of the duplicate-expanded records
\* has as record-derived columns exactly Type, Display Name, Name, Domain, in
\* that order; no column prefixed with '__' is serialized.
C8_Columns ==
    (csv.kind # "none" /\ csv.fields # <<>>) =>
        RecordColumns(csv.fields) = requiredFields

-----------------------------------------------------------------------------
(* C9 *)

\* C9: in every FileSummary, availableFields is exactly the target fields that
\* some column of the table's column list matches case-insensitively, whatever
\* the rows are, and missingFields is its complement in the target field set.
C9_Fields ==
    results # Null =>
      \A k \in 1..Len(files) :
        LET summary == results.fileDetails[k]
            fields == files[k].result.meta.fields
        IN  /\ summary.availableFields =
                 SelectSeq(requiredFields, LAMBDA f : HasColumn(fields, f))
            /\ summary.missingFields =
                 SelectSeq(requiredFields, LAMBDA f : ~HasColumn(fields, f))

-----------------------------------------------------------------------------
(* C10 *)

\* The records the files of a list contribute, in file order then row order.
InFileOrder(fileList) ==
    concatAll([k \in 1..Len(fileList) |->
        filteredData(fileList[k].result, fileList[k], k - 1)])

\* Summary k describes file k of the list.
Describes(frs, fileList) ==
    /\ Len(frs) = Len(fileList)
    /\ \A k \in 1..Len(frs) :
         /\ frs[k].fileName = fileList[k].name
         /\ frs[k].totalRowCount = Len(fileList[k].result.data)
         /\ frs[k].userRowCount =
              Len(RecordsOfFile(InFileOrder(fileList), k - 1))
         /\ frs[k].columns = fileList[k].result.meta.fields

\* C10: files are parsed one at a time in the selected order: while file i is
\* being parsed the accumulators hold exactly what files 0..i-1 contributed, and
\* the published record list is the concatenation in file order of each
\* table's retained rows, fileDetails[k] describes file k, totalRecords is the
\* sum of userRowCount and totalOriginalRecords the sum of totalRowCount.
C10_FileOrder ==
    /\ [](pc = "parsing" =>
            /\ i < Len(runFiles)
            /\ allUsers = InFileOrder(SubSeq(runFiles, 1, i))
            /\ Describes(fileResults, SubSeq(runFiles, 1, i)))
    /\ [][ (pc = "parsing" /\ lastRun' = "published") =>
             /\ combinedData' = InFileOrder(runFiles)
             /\ Describes(results'.fileDetails, runFiles)
             /\ results'.totalFiles = Len(runFiles)
             /\ results'.totalRecords =
                  sumOf([k \in 1..Len(runFiles) |->
                           results'.fileDetails[k].userRowCount])
             /\ results'.totalRecords = Len(combinedData')
             /\ results'.totalOriginalRecords =
                  sumOf([k \in 1..Len(runFiles) |->
                           results'.fileDetails[k].totalRowCount]) ]_vars

\* The run on a.csv then b.csv is published: two records of each, a.csv's first.
C10_Witness ==
    /\ results # Null
    /\ results.totalFiles = 2
    /\ results.fileDetails[1].fileName = "a.csv"
    /\ results.fileDetails[2].fileName = "b.csv"
    /\ results.fileDetails[1].totalRowCount > results.fileDetails[1].userRowCount
    /\ Len(combinedData) = 4
    /\ Get(combinedData[2], "__source_file") = Str("a.csv")
    /\ Get(combinedData[3], "__source_file") = Str("b.csv")

-----------------------------------------------------------------------------
(* C11 *)

\* The 0-based position a group member is annotated with.
OriginalIndex(member) ==
    CHOOSE x \in 0..Len(combinedData) : Get(member, "__original_index") = Num(x)

\* C11: the groups are ordered by the position of the first record carrying
\* each normalized key; within a group the members are in record-list order,
\* each being its record followed by its position as __original_index; and
\* originalName is the unnormalized Name value of the group's first member.
C11_GroupOrder ==
    results # Null =>
      /\ \A g \in 1..Len(duplicates) :
           LET members == duplicates[g].records
           IN  /\ \A m \in 1..Len(members) :
                    /\ \E x \in 0..(Len(combinedData) - 1) :
                         members[m] =
                           Append(combinedData[x + 1],
                                  [k |-> "__original_index", v |-> Num(x)])
                    /\ NormalizedKey(Get(members[m], "Name")) =
                         duplicates[g].duplicateValue
               /\ \A m, n \in 1..Len(members) :
                    m < n => OriginalIndex(members[m]) < OriginalIndex(members[n])
               /\ duplicates[g].originalName =
                    Get(combinedData[OriginalIndex(members[1]) + 1], "Name")
      /\ \A g, h \in 1..Len(duplicates) :
           g < h => OriginalIndex(duplicates[g].records[1])
                      < OriginalIndex(duplicates[h].records[1])

\* Two groups are published: bob, first seen at position 0, before alice, whose
\* first member is "Alice" and whose second is "alice " from the other file.
C11_Witness ==
    /\ results # Null
    /\ Len(duplicates) = 2
    /\ duplicates[1].duplicateValue = "bob"
    /\ duplicates[2].duplicateValue = "alice"
    /\ duplicates[2].originalName = Str("Alice")
    /\ Get(duplicates[2].records[2], "Name") = Str("alice ")
    /\ Get(duplicates[1].records[2], "__original_index") = Num(3)

-----------------------------------------------------------------------------
(* C12 *)

\* C12: whenever results is set, it was computed from the currently selected
\* files: totalFiles is files.length and fileDetails names the selected files
\* in order, under every interleaving of handleFileUpload with a run.
C12_CurrentSelection ==
    results # Null =>
      /\ results.totalFiles = Len(files)
      /\ Len(results.fileDetails) = Len(files)
      /\ \A k \in 1..Len(files) :
           k <= Len(results.fileDetails) =>
             results.fileDetails[k].fileName = files[k].name

====
